---- MODULE Spec2Model ----
(***************************************************************************)
(* Model of the Merkle tree builder (src/src/merkle_tree.rs) and of the    *)
(* digest abstraction it is generic over (src/src/hasher.rs).              *)
(*                                                                         *)
(* The tree is the flat Vec<T::Hash>; indices in the source are 0-based,   *)
(* TLA+ sequences are 1-based, so Index(v, i) reads v[i + 1].              *)
(* build_parents is recursive: every invocation is one step of the model   *)
(* and one frame (start_index, length) on `stack`.                         *)
(***************************************************************************)
EXTENDS Integers, Sequences, FiniteSets, TLC

\* ------------------------------------------------------------------ bounds
\* Largest number of input items handed to from_leaves.
MaxLeaves == 11
\* Largest number of nested build_parents invocations that are followed.
MaxDepth == 6
\* Largest number of input items in the runs checked for termination.
MaxLiveLeaves == 24
\* Longest byte buffer used to sample digests for hash_pair.
MaxBuf == 2

\* The input items: byte strings (D: AsRef<[u8]>).
Items == {<<1>>, <<2, 3>>}
\* All input slices of at most MaxLeaves items.
Inputs == UNION {[1..n -> Items] : n \in 0..MaxLeaves}
\* Bytes the sampled buffers are made of.
SampleBytes == {0, 1, 255}

VARIABLES
    pc,      \* position: "new", "build", "done", "hash_pair", "hash_pair_ret"
    data,    \* the caller's input slice, borrowed by from_leaves
    tree,    \* MerkleTree::tree
    leaves,  \* MerkleTree::leaves
    nodes,   \* MerkleTree::nodes (the capacity computed by calculate_nodes)
    height,  \* MerkleTree::height
    stack,   \* frames (start_index, length) of the build_parents recursion
    left,    \* hash_pair: argument left
    right,   \* hash_pair: argument right (an Option)
    result   \* hash_pair: returned digest

vars == <<pc, data, tree, leaves, nodes, height, stack, left, right, result>>

\* --------------------------------------------------------------- hasher.rs
\* Option<&Hash>
None == << >>
Some(x) == <<x>>

\* Number of bytes of a digest (Hasher::hash_size); the model's hasher has a
\* two byte digest where Sha256Hasher has 32.
HashSize == 2

RECURSIVE Pow(_, _)
Pow(b, e) == IF e = 0 THEN 1 ELSE b * Pow(b, e - 1)

\* The hasher's internal state after absorbing the buffer.
RECURSIVE Absorb(_, _)
Absorb(h, buffer) ==
    IF buffer = << >> THEN h
    ELSE Absorb((h * 31 + Head(buffer) + 1) % 65521, Tail(buffer))

\* Hasher::hash: a deterministic function from a byte buffer to a digest of
\* HashSize bytes.
hash(buffer) ==
    LET h == Absorb(7, buffer)
    IN  [i \in 1..HashSize |-> (h \div Pow(256, HashSize - i)) % 256]

\* Into<Vec<u8>> for a digest: the bytes of the array, in order.
IntoVec(digest) == [i \in 1..Len(digest) |-> digest[i]]

hash_pair_DuplicateLeft(l, r) ==
    IF r # None THEN hash(IntoVec(l) \o IntoVec(r[1]))
    ELSE hash(IntoVec(l) \o IntoVec(l))

hash_pair_RightFirst(l, r) ==
    IF r # None THEN hash(IntoVec(r[1]) \o IntoVec(l)) ELSE l

\* Hasher::hash_pair
hash_pair(l, r) ==
    LET combined == IntoVec(l)
    IN  IF r # None
        THEN hash(combined \o IntoVec(r[1]))
        ELSE l

\* ---------------------------------------------------------- merkle_tree.rs
\* vec[i] and vec.get(i) with the source's 0-based index.
Index(vec, i) == vec[i + 1]
Get(vec, i) == IF i < Len(vec) THEN Some(vec[i + 1]) ELSE None

hash_leaves_Reversed(d) == [i \in 1..Len(d) |-> hash(d[Len(d) + 1 - i])]

\* MerkleTree::hash_leaves
hash_leaves(d) == [i \in 1..Len(d) |-> hash(d[i])]

\* floor(log2(x)) for x >= 1.
RECURSIVE ilog2(_)
ilog2(x) == IF x <= 1 THEN 0 ELSE 1 + ilog2(x \div 2)

calculate_height_Floor(num_leaves) ==
    IF num_leaves = 1 THEN 1 ELSE ilog2(num_leaves + 1)

\* MerkleTree::calculate_height: (num_leaves as f32 + 1f32).log2().round().
\* log2(x) = e + f with e = floor(log2(x)) and 0 <= f < 1; the first binary
\* digit of f is 1 exactly when (x / 2^e)^2 >= 2, and round() then goes up.
\* f is never exactly 1/2 for an integer x, and for the leaf counts modelled
\* here the f32 result is far from the rounding boundary.
calculate_height(num_leaves) ==
    IF num_leaves = 1 THEN 1
    ELSE LET x == num_leaves + 1
             e == ilog2(x)
         IN  IF x * x >= Pow(2, 2 * e + 1) THEN e + 1 ELSE e

\* MerkleTree::calculate_nodes
calculate_nodes(h) == Pow(2, h + 1) - 1

nodes_len_Capacity == nodes

\* MerkleTree::nodes()
nodes_len == Len(tree)

BaseCase_AtMostOne(length) == length <= 1

\* build_parents: the exit test
BaseCase(length) == length = 1

PushParents_Stride1(t, start_index, new_len) ==
    LET parent[k \in 1..new_len] ==
            LET i == k - 1
                At(j) == IF j < Len(t) THEN t[j + 1] ELSE parent[j - Len(t) + 1]
                left_index == start_index + i
                right_index == left_index + 1
                l == At(left_index)
                r == IF right_index < Len(t) + i
                     THEN Some(At(right_index)) ELSE None
            IN  hash_pair(l, r)
    IN  t \o [k \in 1..new_len |-> parent[k]]

\* build_parents: the loop `for i in 0..new_len` pushing one parent per pair.
\* parent[k] is the digest pushed by iteration i = k - 1; during that
\* iteration self.tree is t followed by parent[1 .. i], which At(j) indexes
\* and whose length bounds self.tree.get.
PushParents(t, start_index, new_len) ==
    LET parent[k \in 1..new_len] ==
            LET i == k - 1
                At(j) == IF j < Len(t) THEN t[j + 1] ELSE parent[j - Len(t) + 1]
                left_index == start_index + (2 * i)
                l == At(left_index)
                right_index == left_index + 1
                r == IF right_index < Len(t) + i
                     THEN Some(At(right_index)) ELSE None
            IN  hash_pair(l, r)
    IN  t \o [k \in 1..new_len |-> parent[k]]

\* build_parents: push the remainder node of an odd level
PushRemainder(t, start_index, length) ==
    IF length % 2 = 1
    THEN LET index == start_index + length - 1
             last == Index(t, index)
         IN  Append(t, last)
    ELSE t

NewLen_NoRemainder(length) == length \div 2

\* build_parents: new_len as passed to the recursive call
NewLen(length) ==
    IF length % 2 = 1 THEN (length \div 2) + 1 ELSE length \div 2

\* build_parents: new_start
NewStart(start_index, length) == start_index + length

Frame(s, l) == [start_index |-> s, length |-> l]
Top == stack[Len(stack)]

\* The caller holds its input slice and MerkleTree::new has run.
Init ==
    /\ pc = "new"
    /\ data \in Inputs
    /\ tree = << >>
    /\ leaves = 0
    /\ nodes = 0
    /\ height = 0
    /\ stack = << >>
    /\ left = None
    /\ right = None
    /\ result = None

\* MerkleTree::from_leaves up to the first call of build_parents:
\* hash_leaves, then build_tree (calculate_height, calculate_nodes,
\* with_capacity, extend, build_parents(0, hashed.len())).
from_leaves ==
    /\ pc = "new"
    /\ LET hashed == hash_leaves(data)
       IN  /\ height' = calculate_height(Len(hashed))
           /\ nodes' = calculate_nodes(height')
           /\ tree' = hashed
           /\ stack' = <<Frame(0, Len(hashed))>>
    /\ pc' = "build"
    /\ UNCHANGED <<data, leaves, left, right, result>>

\* One invocation of build_parents that does not hit the exit test: it pushes
\* the next level and calls itself.
build_parents ==
    /\ pc = "build"
    /\ Len(stack) < MaxDepth
    /\ ~BaseCase(Top.length)
    /\ LET start_index == Top.start_index
           length == Top.length
           t1 == PushParents(tree, start_index, length \div 2)
           t2 == PushRemainder(t1, start_index, length)
       IN  /\ tree' = t2
           /\ stack' = Append(stack, Frame(NewStart(start_index, length),
                                           NewLen(length)))
    /\ UNCHANGED <<pc, data, leaves, nodes, height, left, right, result>>

\* The invocation with length == 1 returns, every caller returns after it
\* (the recursive call is the last statement), and from_leaves returns the
\* tree.
build_parents_return ==
    /\ pc = "build"
    /\ BaseCase(Top.length)
    /\ pc' = "done"
    /\ stack' = << >>
    /\ UNCHANGED <<data, tree, leaves, nodes, height, left, right, result>>

Next ==
    \/ from_leaves
    \/ build_parents
    \/ build_parents_return

Spec == Init /\ [][Next]_vars

\* Input slices of one repeated item, of at most MaxLiveLeaves items.
LiveInputs == {[i \in 1..m |-> x] : m \in 0..MaxLiveLeaves, x \in Items}

InitLive ==
    /\ pc = "new"
    /\ data \in LiveInputs
    /\ tree = << >>
    /\ leaves = 0
    /\ nodes = 0
    /\ height = 0
    /\ stack = << >>
    /\ left = None
    /\ right = None
    /\ result = None

\* from_leaves runs to completion once called: nothing suspends it.
SpecLive == InitLive /\ [][Next]_vars /\ WF_vars(Next)

\* ------------------------------------------------- hash_pair on its own
SampleBuffers == UNION {[1..n -> SampleBytes] : n \in 0..MaxBuf}
SampleDigests == {hash(b) : b \in SampleBuffers}

InitPair ==
    /\ pc = "hash_pair"
    /\ left \in SampleDigests
    /\ right \in {None} \cup {Some(d) : d \in SampleDigests}
    /\ result = None
    /\ data = << >>
    /\ tree = << >>
    /\ leaves = 0
    /\ nodes = 0
    /\ height = 0
    /\ stack = << >>

hash_pair_call ==
    /\ pc = "hash_pair"
    /\ result' = hash_pair(left, right)
    /\ pc' = "hash_pair_ret"
    /\ UNCHANGED <<data, tree, leaves, nodes, height, stack, left, right>>

NextPair == hash_pair_call

SpecPair == InitPair /\ [][NextPair]_vars

\* ------------------------------------------------------------ the claims
n == Len(data)
Started == pc \in {"build", "done"}
\* The invocation on top of the stack is the one that hits the exit test.
AtRoot == pc = "build" /\ BaseCase(Top.length)

\* C1: every level (s, L) with L >= 2 that build_parents has processed is
\* followed by the level starting at s + L of length ceil(L / 2); its entry i
\* (i < floor(L / 2)) is hash(tree[s + 2i] ++ tree[s + 2i + 1]), and when L is
\* odd its last entry is tree[s + L - 1] itself.
C1_LevelLayout ==
    pc = "build" =>
      \A k \in 1..(Len(stack) - 1) :
        LET s == stack[k].start_index
            L == stack[k].length
            nxt == stack[k + 1]
        IN  L >= 2 =>
              /\ nxt.start_index = s + L
              /\ nxt.length = IF L % 2 = 1 THEN (L \div 2) + 1 ELSE L \div 2
              /\ Len(tree) >= s + L + nxt.length
              /\ \A i \in 0..((L \div 2) - 1) :
                   Index(tree, s + L + i) =
                     hash(Index(tree, s + 2 * i) \o Index(tree, s + 2 * i + 1))
              /\ L % 2 = 1 =>
                   Index(tree, s + L + (L \div 2)) = Index(tree, s + L - 1)

C1_Witness ==
    /\ pc = "build"
    /\ Len(stack) = 4
    /\ stack[1].length = 6
    /\ stack[2].length = 3
    /\ Index(tree, 10) = Index(tree, 8)
    /\ data[1] # data[2]

\* C2: once from_leaves has stored the leaves, the first n entries of the
\* tree are hash(item_0) .. hash(item_{n-1}) in input order, in every later
\* state of the build.
C2_LeavesInOrder ==
    Started =>
      /\ Len(tree) >= n
      /\ \A i \in 1..n : tree[i] = hash(data[i])

C2_Witness ==
    /\ pc = "done"
    /\ n >= 3
    /\ data[1] # data[2]
    /\ Len(tree) > n

C4_CapacityBound == pc = "done" => nodes >= nodes_len

\* C5: when the build reaches the root, height is the number of
\* build_parents invocations that ran with a level length above 1.
C5_HeightIsLevels ==
    AtRoot =>
      height = Cardinality({k \in 1..Len(stack) : stack[k].length > 1})

\* C6: after from_leaves, nodes() is the sum of the level lengths n,
\* ceil(n/2), ... down to 1; 1, 4, 7, 8, 10, 11 leaves give 1, 7, 14, 15,
\* 21, 23 digests.
RECURSIVE LevelSum(_)
LevelSum(L) == IF L <= 1 THEN L ELSE L + LevelSum((L + 1) \div 2)

C6_Table == <<1, 0, 0, 7, 0, 0, 14, 15, 0, 21, 23>>

C6_NodeCount ==
    pc = "done" =>
      /\ nodes_len = LevelSum(n)
      /\ n \in {1, 4, 7, 8, 10, 11} => nodes_len = C6_Table[n]

C6_Witness == pc = "done" /\ n = 11 /\ nodes_len = 23

\* C7: height is 1 for one leaf and otherwise round(log2(n + 1)), the integer
\* k with 2^(2k-1) <= (n+1)^2 < 2^(2k+1) (both sides doubled here to stay in
\* the integers); 1, 4, 7, 8, 10, 11 leaves give 1, 2, 3, 3, 3, 4.
C7_Rounded(m) ==
    CHOOSE k \in 0..(m + 1) :
        /\ Pow(4, k) <= 2 * (m + 1) * (m + 1)
        /\ 2 * (m + 1) * (m + 1) < Pow(4, k + 1)

C7_Table == <<1, 0, 0, 2, 0, 0, 3, 3, 0, 3, 4>>

IsPowerOfTwo(m) == \E e \in 0..m : Pow(2, e) = m

\* The frames (start_index, length) of build_parents(start_index, length) and
\* of the invocations nested in it.
RECURSIVE CallFrames(_, _)
CallFrames(start_index, length) ==
    IF BaseCase(length) THEN <<Frame(start_index, length)>>
    ELSE <<Frame(start_index, length)>>
           \o CallFrames(NewStart(start_index, length), NewLen(length))

C9_RootPromoted ==
    pc = "new" => \E m \in 1..MaxLeaves :
        /\ ~IsPowerOfTwo(m)
        /\ LET f == CallFrames(0, m)
           IN  /\ Len(f) >= 2
               /\ f[Len(f) - 1].length % 2 = 1

\* C9 (amended): for two or more leaves, power of two or not, the level
\* below the root has exactly two entries and the root is the hash of their
\* bytes, left then right; promoted entries stay below the root.
C9_RootIsHashed ==
    AtRoot /\ n >= 2 =>
      /\ Len(stack) >= 2
      /\ LET prev == stack[Len(stack) - 1]
         IN  /\ prev.length = 2
             /\ Index(tree, Len(tree) - 1) =
                  hash(Index(tree, prev.start_index)
                         \o Index(tree, prev.start_index + 1))

C9_Witness ==
    /\ AtRoot
    /\ n = 3
    /\ data[1] # data[2]
    /\ Index(tree, 4) = Index(tree, 2)
    /\ Index(tree, 5) = hash(Index(tree, 3) \o Index(tree, 4))
    /\ Index(tree, 5) # Index(tree, 4)

\* C10: for an empty input from_leaves never returns; every build_parents
\* invocation is (0, 0) and the tree stays empty.
C10_EmptyNeverReturns ==
    Started /\ n = 0 =>
      /\ pc = "build"
      /\ tree = << >>
      /\ \A k \in 1..Len(stack) : stack[k] = Frame(0, 0)

C10_Witness ==
    /\ pc = "build"
    /\ n = 0
    /\ Len(stack) >= 3
    /\ stack[3] = stack[1]

====
